---- MODULE Spec2Model ----
(***************************************************************************)
(* diesel-logger: LoggingConnection<C>, a wrapper around an asynchronous   *)
(* diesel connection C that times load / execute_returning_count and logs  *)
(* the elapsed time through the `log` crate, and LoggingTransactionManager *)
(* which forwards every transaction call to C's own transaction manager.   *)
(*                                                                         *)
(* Numbers.  TLC integers are 32-bit signed, so a quantity that can reach  *)
(* 2^32 (the u32 product `as_secs() as u32 * 1000`) is kept as two         *)
(* base-2^16 limbs hi, lo (value = hi * 2^16 + lo); a u32 has hi < 2^16.   *)
(* An f32 is kept as mantissa and exponent, value = m * 2^e with m = 0 or  *)
(* 2^23 <= m < 2^24, and every f32 operation rounds to nearest, ties to    *)
(* even, as IEEE 754 does (no value here is subnormal or infinite).        *)
(***************************************************************************)
EXTENDS Integers, Sequences, FiniteSets, TLC

\* ------------------------------------------------------------------ bounds
MaxTicks == 2
MaxOps == 2
MaxDepth == 2

\* ------------------------------------------------- std::time::Duration
NANOS_PER_SEC == 1000000000
Limb == 2^16

Duration(s, n) == [secs |-> s, nanos |-> n]
as_secs(d) == d.secs
subsec_nanos(d) == d.nanos

\* Instant + Duration
InstantAdd(t, d) ==
    IF t.nanos + d.nanos >= NANOS_PER_SEC
    THEN Duration(t.secs + d.secs + 1, t.nanos + d.nanos - NANOS_PER_SEC)
    ELSE Duration(t.secs + d.secs, t.nanos + d.nanos)

\* Instant::elapsed: the clock reading `t` minus the instant `start_time`
elapsed(start_time, t) ==
    IF t.nanos >= start_time.nanos
    THEN Duration(t.secs - start_time.secs, t.nanos - start_time.nanos)
    ELSE Duration(t.secs - start_time.secs - 1,
                  t.nanos + NANOS_PER_SEC - start_time.nanos)

\* d1 >= d2 on durations
DurGe(d1, d2) ==
    \/ d1.secs > d2.secs
    \/ d1.secs = d2.secs /\ d1.nanos >= d2.nanos

VARIABLES
    overflow_checks,  \* the build: TRUE = integer overflow panics (debug profile)
    max_level,        \* the most verbose level the log crate lets through
    now,              \* the monotonic clock (Instant::now), as a Duration since start
    ticks,            \* how many times the clock has advanced
    ops,              \* how many operations have been called on the wrapper
    conn,             \* the LoggingConnection: [connection, transaction_manager]
    direct,           \* a connection of type C driven directly with the same calls
    fut,              \* the future of the last call on the connection (load:
                      \* the one it returned)
    ests,             \* the futures of the establish calls, oldest first
    macros,           \* the uses of a log macro the wrapper has made, oldest first
    log,              \* the records that reached the logger, oldest first
    ret,              \* what the wrapper returned for the last call
    direct_ret,       \* what the directly driven connection returned for it
    counts,           \* calls made so far, per kind
    panicked,         \* the calling task has panicked
    probe_in,         \* a Duration handed to log_query on its own
    probe_out         \* what log_query did with it

vars == <<overflow_checks, max_level, now, ticks, ops, conn, direct, fut,
          ests, macros, log, ret, direct_ret, counts, panicked, probe_in, probe_out>>

\* ------------------------------------------------------- u32 arithmetic
NANOS_PER_MILLI == 1000000
MILLIS_PER_SEC == 1000

\* a non-negative integer as limbs
Limbs(x) == [hi |-> x \div Limb, lo |-> x % Limb]

\* `x as u32` for a non-negative integer x: the low 32 bits
AsU32(x) == [hi |-> (x \div Limb) % Limb, lo |-> x % Limb]

\* a * k on limbs, exact (hi is not reduced)
MulExact(a, k) ==
    [hi |-> a.hi * k + ((a.lo * k) \div Limb), lo |-> (a.lo * k) % Limb]

\* u32 * u32 as the build computes it: the wrapped product, and whether the
\* exact product left the u32 range
MulU32(a, k) ==
    LET p == MulExact(a, k)
    IN  [overflow |-> p.hi >= Limb, hi |-> p.hi % Limb, lo |-> p.lo]

\* ------------------------------------------------------- f32 arithmetic
F32(m, e) == [ok |-> TRUE, m |-> m, e |-> e]
F32Zero == F32(0, 0)
F32Panic == [ok |-> FALSE, m |-> 0, e |-> 0]

RECURSIVE BitLen(_)
BitLen(x) == IF x = 0 THEN 0 ELSE 1 + BitLen(x \div 2)

\* round to nearest, ties to even: q with the remainder rem out of 2 * half
RoundHalfEven(q, rem, half) ==
    IF rem > half \/ (rem = half /\ q % 2 = 1) THEN q + 1 ELSE q

\* a rounded 24-bit mantissa q (2^23 <= q <= 2^24) with its exponent
Normal(q, e) == IF q = 2^24 THEN F32(2^23, e + 1) ELSE F32(q, e)

\* `w as f32` for an unsigned integer in limbs
ToF32(w) ==
    LET len == IF w.hi > 0 THEN BitLen(w.hi) + 16 ELSE BitLen(w.lo)
        s == len - 24
        q == IF s <= 16 THEN w.hi * 2^(16 - s) + (w.lo \div 2^s)
             ELSE w.hi \div 2^(s - 16)
        rem == IF s <= 16 THEN w.lo % 2^s
               ELSE (w.hi % 2^(s - 16)) * Limb + w.lo
    IN  IF len = 0 THEN F32Zero
        ELSE IF len <= 24 THEN F32((w.hi * Limb + w.lo) * 2^(24 - len), len - 24)
        ELSE Normal(RoundHalfEven(q, rem, 2^(s - 1)), s)

\* n more quotient bits of r / d (r < d)
RECURSIVE QuotientBits(_, _, _, _)
QuotientBits(q, r, d, n) ==
    IF n = 0 THEN [q |-> q, r |-> r]
    ELSE IF 2 * r >= d THEN QuotientBits(2 * q + 1, 2 * r - d, d, n - 1)
    ELSE QuotientBits(2 * q, 2 * r, d, n - 1)

\* x / y in f32 (y # 0)
DivF32(x, y) ==
    LET n == IF x.m >= y.m THEN 23 ELSE 24
        b == QuotientBits(x.m \div y.m, x.m % y.m, y.m, n)
    IN  IF x.m = 0 THEN F32Zero
        ELSE Normal(RoundHalfEven(b.q, 2 * b.r, y.m), x.e - y.e - n)

\* x + y in f32 (both >= 0): the smaller operand is aligned to the larger
\* with three extra bits, the last one sticky
AddF32(x, y) ==
    LET big == IF x.e >= y.e THEN x ELSE y
        small == IF x.e >= y.e THEN y ELSE x
        diff == big.e - small.e
        aligned == IF diff >= 27 THEN 1
                   ELSE ((small.m * 8) \div 2^diff)
                        + (IF (small.m * 8) % 2^diff # 0
                              /\ ((small.m * 8) \div 2^diff) % 2 = 0
                           THEN 1 ELSE 0)
        sum == big.m * 8 + aligned
        s == BitLen(sum) - 24
    IN  IF x.m = 0 THEN y
        ELSE IF y.m = 0 THEN x
        ELSE Normal(RoundHalfEven(sum \div 2^s, sum % 2^s, 2^(s - 1)),
                    big.e - 3 + s)

\* format!("{:.dec}", x): the decimal digits of x rounded to `dec` places
\* (to nearest on the exact value, ties to even); the whole part in limbs
Decimal(whole, frac) == [hi |-> whole.hi, lo |-> whole.lo, frac |-> frac]
Fmt(x, dec) ==
    LET k == 0 - x.e
        n == x.m * 10^dec
        r == IF k >= 32 THEN 0
             ELSE IF k = 31 THEN (IF n > 2^30 THEN 1 ELSE 0)
             ELSE RoundHalfEven(n \div 2^k, n % 2^k, 2^(k - 1))
    IN  IF x.m = 0 THEN Decimal(Limbs(0), 0)
        ELSE IF x.e > 16 THEN Decimal([hi |-> x.m * 2^(x.e - 16), lo |-> 0], 0)
        ELSE IF x.e >= 0
        THEN Decimal([hi |-> x.m \div 2^(16 - x.e),
                      lo |-> (x.m % 2^(16 - x.e)) * 2^x.e], 0)
        ELSE Decimal(Limbs(r \div 10^dec), r % 10^dec)

\* fn duration_to_ms: (as_secs as u32 * 1000) as f32 + subsec_nanos as f32 / 1e6
duration_to_ms(duration) ==
    LET p == MulU32(AsU32(as_secs(duration)), 1000)
    IN  IF p.overflow /\ overflow_checks
        THEN F32Panic
        ELSE AddF32(ToF32(p),
                    DivF32(ToF32(AsU32(subsec_nanos(duration))),
                           ToF32(AsU32(NANOS_PER_MILLI))))

\* fn duration_to_secs: duration_to_ms(duration) / MILLIS_PER_SEC as f32
duration_to_secs(duration) ==
    LET ms == duration_to_ms(duration)
    IN  IF ms.ok THEN DivF32(ms, ToF32(AsU32(MILLIS_PER_SEC))) ELSE F32Panic

\* ------------------------------------------------ the log crate's macros
Levels == {"warn", "info", "debug"}
SlowTemplate == "SLOW QUERY [{:.2} s]: {}"
QueryTemplate == "QUERY: [{:.1}ms]: {}"

\* log::Level and log::LevelFilter in their order, Off < Error < ... < Trace
LevelRank(level) ==
    CASE level = "Off" -> 0
      [] level \in {"Error", "error"} -> 1
      [] level \in {"Warn", "warn"} -> 2
      [] level \in {"Info", "info"} -> 3
      [] level \in {"Debug", "debug"} -> 4
      [] level \in {"Trace", "trace"} -> 5

\* the `{:.N}` of a template
Decimals(template) == IF template = SlowTemplate THEN 2 ELSE 1

NotEvaluated == [ok |-> TRUE, m |-> 0 - 1, e |-> 0]
NoText == [hi |-> 0, lo |-> 0, frac |-> 0 - 1]

\* One use of warn! / info! / debug! with the arguments (value, query).  The
\* macro tests the level first (lvl <= STATIC_MAX_LEVEL && lvl <=
\* log::max_level(), here together max_level) and evaluates and formats its
\* arguments only when the level is enabled: a disabled use computes
\* nothing, cannot panic and hands the logger nothing.  An enabled use whose
\* value panics unwinds before the logger is reached.
LogCall(level, template, value, query) ==
    LET enabled == LevelRank(level) <= LevelRank(max_level)
    IN  [level |-> level, template |-> template, query |-> query,
         enabled |-> enabled,
         panics |-> enabled /\ ~value.ok,
         emitted |-> enabled /\ value.ok,
         value |-> IF enabled THEN value ELSE NotEvaluated,
         text |-> IF enabled /\ value.ok
                  THEN Fmt(value, Decimals(template)) ELSE NoText]

\* a faulty log_query: the thresholds are exclusive
log_query_strict(query, duration) ==
    IF as_secs(duration) > 5
    THEN LogCall("warn", SlowTemplate, duration_to_secs(duration), query)
    ELSE IF as_secs(duration) > 1
    THEN LogCall("info", SlowTemplate, duration_to_secs(duration), query)
    ELSE LogCall("debug", QueryTemplate, duration_to_ms(duration), query)

\* fn log_query(query, duration)
log_query(query, duration) ==
    IF as_secs(duration) >= 5
    THEN LogCall("warn", SlowTemplate, duration_to_secs(duration), query)
    ELSE IF as_secs(duration) >= 1
    THEN LogCall("info", SlowTemplate, duration_to_secs(duration), query)
    ELSE LogCall("debug", QueryTemplate, duration_to_ms(duration), query)

\* ------------------------------------------- the wrapped connection C
\* C and its transaction manager are supplied by the caller (diesel_async);
\* the wrapper sees them only through the AsyncConnection and
\* TransactionManager traits.  Here C is a connection whose transaction
\* status is a depth 0..MaxDepth (0 = no transaction) or InError.  Every
\* call on C yields a future; polled, it answers "pending" or completes the
\* way the environment chooses, and C changes only when it completes.
InError == 0 - 1
Statuses == {InError} \cup (0..MaxDepth)
NewInner == [status |-> 0]

Ok(v) == [tag |-> "Ok", val |-> v]
Err(e) == [tag |-> "Err", val |-> [error |-> e]]
Unit == [unit |-> TRUE]
NoRet == [tag |-> "None", val |-> Unit]
Pending == [tag |-> "Pending", val |-> Unit]

Sources == {"q1"}
\* debug_query(..) rendered with format!("{}", ..)
Render(source) == <<"sql", source>>

TxnOutcomes == {"ok", "err", "broken"}
\* C::TransactionManager::{begin,commit,rollback}_transaction(&mut c),
\* completed with outcome o
InnerTxn(c, op, o) ==
    IF c.status = InError
    THEN IF op = "rollback" /\ o = "ok"
         THEN [conn |-> [c EXCEPT !.status = 0], result |-> Ok(Unit)]
         ELSE [conn |-> c, result |-> Err("BrokenTransactionManager")]
    ELSE IF o = "broken"
    THEN [conn |-> [c EXCEPT !.status = InError], result |-> Err("DatabaseError")]
    ELSE IF o = "err"
    THEN [conn |-> c, result |-> Err("DatabaseError")]
    ELSE IF op = "begin"
    THEN IF c.status < MaxDepth
         THEN [conn |-> [c EXCEPT !.status = c.status + 1], result |-> Ok(Unit)]
         ELSE [conn |-> c, result |-> Err("DatabaseError")]
    ELSE IF c.status > 0
    THEN [conn |-> [c EXCEPT !.status = c.status - 1], result |-> Ok(Unit)]
    ELSE [conn |-> c, result |-> Err("NotInTransaction")]

\* C::establish(database_url), completed with outcome o
InnerEstablish(database_url, o) ==
    IF o = "ok" THEN Ok(NewInner) ELSE Err("BadConnection")

\* c.batch_execute(query), completed with outcome o
InnerBatchExecute(c, query, o) ==
    [conn |-> c,
     result |-> IF o = "ok" THEN Ok(Unit) ELSE Err("DatabaseError")]

\* c.load(query): the future C hands back for the query
InnerLoad(c, query) ==
    [conn |-> c, result |-> [tag |-> "LoadFuture", val |-> [of |-> query]]]

\* what the futures of C can resolve to
LoadResults == {Ok([stream |-> "rows"]), Err("DatabaseError")}
ExecResults == {Ok([count |-> 1]), Err("DatabaseError")}

\* --------------------------------------------------- LoggingConnection
\* LoggingConnection::new
LoggingConnection_new(connection) ==
    [connection |-> connection,
     transaction_manager |-> [phantom |-> "PhantomData"]]

\* What one poll of a handler's future (for load: the call) did: the wrapper
\* afterwards, the uses of the log macros it made (in order), and what it
\* returned (Pending when C's future was not ready).
Done(c, logs, r) == [conn |-> c, logs |-> logs, ret |-> r]

\* async fn establish(database_url): a poll in which C::establish's future
\* answers a
establish(database_url, a) ==
    LET r == InnerEstablish(database_url, a)
    IN  IF a = "pending" THEN [logs |-> <<>>, ret |-> Pending]
        ELSE IF r.tag = "Ok"
        THEN [logs |-> <<>>, ret |-> Ok(LoggingConnection_new(r.val))]
        ELSE [logs |-> <<>>, ret |-> r]

\* a faulty batch_execute: the inner result is dropped
batch_execute_ignoring_result(c, query, a) ==
    LET r == InnerBatchExecute(c.connection, query, a)
    IN  IF a = "pending" THEN Done(c, <<>>, Pending)
        ELSE Done([c EXCEPT !.connection = r.conn], <<>>, Ok(Unit))

\* a faulty batch_execute: the call is logged
batch_execute_timed(c, query, a) ==
    LET r == InnerBatchExecute(c.connection, query, a)
    IN  IF a = "pending" THEN Done(c, <<>>, Pending)
        ELSE Done([c EXCEPT !.connection = r.conn],
                  <<log_query(<<"sql", query>>, Duration(0, 0))>>, r.result)

\* async fn batch_execute(&mut self, query): a poll in which the future of
\* self.connection.batch_execute(query) answers a
batch_execute(c, query, a) ==
    LET r == InnerBatchExecute(c.connection, query, a)
    IN  IF a = "pending" THEN Done(c, <<>>, Pending)
        ELSE Done([c EXCEPT !.connection = r.conn], <<>>, r.result)

\* fn bench_query_begin() -> Instant, the clock reading t
bench_query_begin(t) == t

\* fn bench_query_end(start_time, query), the clock reading t
bench_query_end(start_time, query, t) ==
    LET duration == elapsed(start_time, t)
    IN  log_query(query, duration)

\* a faulty load: bench_query_end is not called
load_without_log(c, source, t0, t1) ==
    LET debug_string == Render(source)
        begin == bench_query_begin(t0)
        res == InnerLoad(c.connection, source)
    IN  [conn |-> [c EXCEPT !.connection = res.conn], logs |-> <<>>,
         ret |-> res.result, query |-> debug_string, begin |-> begin]

\* fn load(&mut self, source): t0 is the clock when the call begins, t1 the
\* clock when self.connection.load(query) has returned
load(c, source, t0, t1) ==
    LET debug_string == Render(source)
        begin == bench_query_begin(t0)
        res == InnerLoad(c.connection, source)
        out == bench_query_end(begin, debug_string, t1)
    IN  [conn |-> [c EXCEPT !.connection = res.conn], logs |-> <<out>>,
         ret |-> res.result, query |-> debug_string, begin |-> begin]

\* The future of the last call on the connection.  state: "created" (never
\* polled), "pending" (suspended in the await of C's future), "done",
\* "dropped", "panicked" (a poll unwound out of it).  source is the
\* argument the future captured.  began_at, ended_at and trace are
\* bookkeeping of this model, written by the actions below: the clock when
\* the timed work began (execute: the first poll; load: the call) and ended
\* (execute: the elapsed() of the poll in which C's future was ready; load:
\* the return of C's load), and the steps an execute has taken.
NoInstant == Duration(0, 0)
NoFut ==
    [op |-> "none", id |-> 0, state |-> "none", source |-> "", query_sql |-> <<>>,
     start_time |-> NoInstant, began_at |-> NoInstant, ended_at |-> NoInstant,
     trace |-> <<>>]

\* calling an async fn: its future, nothing of its body has run
AsyncCall(op, arg, id) ==
    [NoFut EXCEPT !.op = op, !.id = id, !.state = "created", !.source = arg]

\* calling establish (an associated fn, it borrows no connection): its
\* future, with what it and C::establish on its own have returned so far
EstablishCall(database_url, id) ==
    [id |-> id, state |-> "created", database_url |-> database_url,
     ret |-> NoRet, direct_ret |-> NoRet]

\* fn execute_returning_count(&mut self, source): everything before the
\* async block
execute_returning_count(source, id) ==
    LET query_sql == Render(source)
    IN  [NoFut EXCEPT !.op = "execute", !.id = id, !.state = "created",
                      !.source = source, !.query_sql = query_sql,
                      !.trace = <<"rendered">>]

\* One poll of the async block, in which C's future answers ip (Pending, or
\* its result).  t0 is the clock when the poll begins (read by Instant::now()
\* in the first poll only), t1 the clock once C's future has answered (read
\* by start_time.elapsed() when it was ready).  When the argument of the log
\* macro panics, the poll unwinds out of log_query: nothing is logged,
\* nothing is yielded and the future is left as it was after elapsed().
Panic == [tag |-> "Panic", val |-> Unit]
PollOut(f, logs, out) == [fut |-> f, logs |-> logs, out |-> out]
Started(f, start_time, steps) ==
    [f EXCEPT !.start_time = start_time,
              !.trace = IF f.state = "created" THEN f.trace \o steps ELSE f.trace]

\* a faulty async block: the timer is taken anew at every poll
poll_restart_timer(f, t0, t1, ip) ==
    LET start_time == t0
        started == Started(f, start_time, <<"timer_started", "inner_awaited">>)
    IN  IF ip = Pending
        THEN PollOut([started EXCEPT !.state = "pending"], <<>>, Pending)
        ELSE LET duration == elapsed(start_time, t1)
                 out == log_query(f.query_sql, duration)
             IN  PollOut([started EXCEPT !.state = "done",
                              !.trace = started.trace \o
                                  <<"inner_completed", "elapsed_computed", "logged", "yielded">>],
                         <<out>>, ip)

\* a faulty async block: only an Ok result is logged
poll_log_on_success(f, t0, t1, ip) ==
    LET start_time == IF f.state = "created" THEN t0 ELSE f.start_time
        started == Started(f, start_time, <<"timer_started", "inner_awaited">>)
    IN  IF ip = Pending
        THEN PollOut([started EXCEPT !.state = "pending"], <<>>, Pending)
        ELSE LET duration == elapsed(start_time, t1)
                 out == log_query(f.query_sql, duration)
             IN  PollOut([started EXCEPT !.state = "done",
                              !.trace = started.trace \o
                                  <<"inner_completed", "elapsed_computed", "logged", "yielded">>],
                         IF ip.tag = "Ok" THEN <<out>> ELSE <<>>, ip)

\* a faulty async block: the record is written before the await
poll_log_eagerly(f, t0, t1, ip) ==
    LET first == f.state = "created"
        start_time == IF first THEN t0 ELSE f.start_time
        duration == elapsed(start_time, t0)
        out == log_query(f.query_sql, duration)
        started == Started(f, start_time,
                           <<"timer_started", "elapsed_computed", "logged",
                             "inner_awaited">>)
    IN  IF ip = Pending
        THEN PollOut([started EXCEPT !.state = "pending"],
                     IF first THEN <<out>> ELSE <<>>, Pending)
        ELSE PollOut([started EXCEPT !.state = "done",
                          !.trace = started.trace \o <<"inner_completed", "yielded">>],
                     IF first THEN <<out>> ELSE <<>>, ip)

\* async move { start_time = Instant::now(); result = ...await;
\*              duration = start_time.elapsed(); log_query(..); result }
poll(f, t0, t1, ip) ==
    LET start_time == IF f.state = "created" THEN t0 ELSE f.start_time
        started == Started(f, start_time, <<"timer_started", "inner_awaited">>)
    IN  IF ip = Pending
        THEN PollOut([started EXCEPT !.state = "pending"], <<>>, Pending)
        ELSE LET duration == elapsed(start_time, t1)
                 out == log_query(f.query_sql, duration)
             IN  IF out.panics
                 THEN PollOut([started EXCEPT !.state = "panicked",
                                  !.trace = started.trace \o
                                      <<"inner_completed", "elapsed_computed">>],
                              <<out>>, Panic)
                 ELSE PollOut([started EXCEPT !.state = "done",
                                  !.trace = started.trace \o
                                      <<"inner_completed", "elapsed_computed",
                                        "logged", "yielded">>],
                              <<out>>, ip)

\* ------------------------------------------- LoggingTransactionManager
\* a faulty begin_transaction: the inner manager is not called
begin_transaction_local(c, a) ==
    IF a = "pending" THEN Done(c, <<>>, Pending) ELSE Done(c, <<>>, Ok(Unit))

\* async fn begin_transaction(conn): a poll in which the future of
\* C::TransactionManager::begin_transaction(&mut conn.connection) answers a
begin_transaction(c, a) ==
    LET r == InnerTxn(c.connection, "begin", a)
    IN  IF a = "pending" THEN Done(c, <<>>, Pending)
        ELSE Done([c EXCEPT !.connection = r.conn], <<>>, r.result)

\* async fn rollback_transaction(conn), likewise
rollback_transaction(c, a) ==
    LET r == InnerTxn(c.connection, "rollback", a)
    IN  IF a = "pending" THEN Done(c, <<>>, Pending)
        ELSE Done([c EXCEPT !.connection = r.conn], <<>>, r.result)

\* a faulty commit_transaction: the call is logged
commit_transaction_timed(c, a) ==
    LET r == InnerTxn(c.connection, "commit", a)
    IN  IF a = "pending" THEN Done(c, <<>>, Pending)
        ELSE Done([c EXCEPT !.connection = r.conn],
                  <<log_query(<<"sql", "COMMIT">>, Duration(0, 0))>>, r.result)

\* async fn commit_transaction(conn), likewise
commit_transaction(c, a) ==
    LET r == InnerTxn(c.connection, "commit", a)
    IN  IF a = "pending" THEN Done(c, <<>>, Pending)
        ELSE Done([c EXCEPT !.connection = r.conn], <<>>, r.result)

\* fn transaction_manager_status_mut(conn) -> &mut TransactionManagerStatus:
\* the place inside the wrapper the returned reference points to
transaction_manager_status_mut(c) == <<"connection", "status">>

\* reading and writing through a reference into the wrapper
Deref(c, place) == c[place[1]][place[2]]
Assign(c, place, v) == [c EXCEPT ![place[1]][place[2]] = v]

\* ------------------------------------------------------------- actions
\* how far the clock can move in one step.  The elapsed times of Spec stay
\* below MaxTicks * 4s, far from the 4,294,968s at which the u32 product of
\* duration_to_ms overflows; SpecDur hands log_query such durations, and
\* the sub-second ones.
Steps == {Duration(1, 0), Duration(4, 0)}

\* the settings of log::max_level the model runs under: nothing enabled,
\* warn and info enabled, everything enabled
MaxLevels == {"Off", "Info", "Trace"}

Emitted(logs) == SelectSeq(logs, LAMBDA r : r.emitted)
Completed(logs) == SelectSeq(logs, LAMBDA r : ~r.panics)
Panics(logs) == \E i \in 1..Len(logs) : logs[i].panics
Tagged(logs, op, id) ==
    [i \in 1..Len(logs) |-> [rec |-> logs[i], op |-> op, call |-> id]]

\* the log macros used by call `id` of operation `op`: the uses that ran to
\* their end are records, the enabled ones reach the logger; one whose
\* arguments panic is no record and unwinds the caller
Logged(logs, op, id) ==
    /\ macros' = macros \o Tagged(Completed(logs), op, id)
    /\ log' = log \o Tagged(Emitted(logs), op, id)
    /\ panicked' = Panics(logs)

Live == fut.state \in {"created", "pending"}
CanCall == ~panicked /\ ops < MaxOps /\ ~Live
Count(k) == counts' = [counts EXCEPT ![k] = @ + 1]

Init ==
    /\ overflow_checks \in BOOLEAN
    /\ max_level \in MaxLevels
    /\ now = Duration(0, 0)
    /\ ticks = 0
    /\ ops = 0
    /\ conn = LoggingConnection_new(NewInner)
    /\ direct = NewInner
    /\ fut = NoFut
    /\ ests = <<>>
    /\ macros = <<>>
    /\ log = <<>>
    /\ ret = NoRet
    /\ direct_ret = NoRet
    /\ counts = [load |-> 0, exec_done |-> 0]
    /\ panicked = FALSE
    /\ probe_in = Duration(0, 0)
    /\ probe_out = <<>>

\* time passes while a timed future is outstanding (only load and the async
\* block of execute_returning_count read the clock, and they move it
\* themselves between their two readings)
Tick ==
    \E step \in Steps :
        /\ ~panicked /\ ticks < MaxTicks /\ Live
        /\ fut.op \in {"load", "execute"}
        /\ now' = InstantAdd(now, step)
        /\ ticks' = ticks + 1
        /\ UNCHANGED <<overflow_checks, max_level, ests, ops, conn, direct, fut,
                       macros, log, ret, direct_ret, counts, panicked,
                       probe_in, probe_out>>

\* the caller calls an async fn of the wrapper and holds its future
Call(op, arg) ==
    /\ CanCall
    /\ ops' = ops + 1
    /\ fut' = AsyncCall(op, arg, ops + 1)
    /\ ret' = NoRet
    /\ direct_ret' = NoRet
    /\ UNCHANGED <<overflow_checks, max_level, ests, now, ticks, conn, direct,
                   macros, log, counts, panicked, probe_in, probe_out>>

\* the caller polls the future of `op`: h is what the wrapper's poll did, d
\* what C does when the same call is made on it directly
Polled(op, h, d) ==
    /\ ~panicked /\ fut.op = op /\ Live
    /\ fut' = [fut EXCEPT !.state = IF h.ret = Pending THEN "pending" ELSE "done"]
    /\ Logged(h.logs, op, fut.id)
    /\ conn' = h.conn
    /\ ret' = h.ret
    /\ direct' = d.conn
    /\ direct_ret' = d.result
    /\ UNCHANGED <<overflow_checks, max_level, ests, now, ticks, ops, probe_in,
                   probe_out>>

\* C's own future polled with answer a: not ready, or completed as d
Answer(c, a, d) == IF a = "pending" THEN [conn |-> c, result |-> Pending] ELSE d

\* establish borrows no connection: it can be called whatever futures are
\* outstanding
Establish ==
    /\ ~panicked /\ ops < MaxOps
    /\ ops' = ops + 1
    /\ ests' = Append(ests, EstablishCall("url", ops + 1))
    /\ UNCHANGED <<overflow_checks, max_level, now, ticks, conn, direct, fut,
                   macros, log, ret, direct_ret, counts, panicked, probe_in,
                   probe_out>>

EstablishLive(i) == ests[i].state \in {"created", "pending"}

\* the caller polls the future of an establish call.  The connection it
\* yields is a new one; the caller goes on with it unless a future still
\* borrows the connection in use.
EstablishPoll ==
    \E i \in DOMAIN ests, a \in {"pending", "ok", "refused"} :
        LET h == establish(ests[i].database_url, a)
            d == InnerEstablish(ests[i].database_url, a)
        IN  /\ ~panicked /\ EstablishLive(i)
            /\ ests' = [ests EXCEPT ![i] =
                          [@ EXCEPT !.state = IF h.ret = Pending THEN "pending"
                                              ELSE "done",
                                    !.ret = h.ret,
                                    !.direct_ret = IF a = "pending" THEN Pending
                                                   ELSE d]]
            /\ Logged(h.logs, "establish", ests[i].id)
            /\ IF h.ret.tag = "Ok" /\ ~Live
               THEN conn' = h.ret.val /\ direct' = d.val
               ELSE UNCHANGED <<conn, direct>>
            /\ UNCHANGED <<overflow_checks, max_level, now, ticks, ops, fut,
                           ret, direct_ret, counts, probe_in, probe_out>>

\* the caller drops the future of an establish call before it has completed
EstablishDrop ==
    \E i \in DOMAIN ests :
        /\ ~panicked /\ EstablishLive(i)
        /\ ests' = [ests EXCEPT ![i].state = "dropped"]
        /\ UNCHANGED <<overflow_checks, max_level, now, ticks, ops, conn,
                       direct, fut, macros, log, ret, direct_ret, counts,
                       panicked, probe_in, probe_out>>

BatchExecute == \E query \in Sources : Call("batch_execute", query)

BatchExecutePoll ==
    \E a \in {"pending", "ok", "err"} :
        /\ Polled("batch_execute", batch_execute(conn, fut.source, a),
                  Answer(direct, a, InnerBatchExecute(direct, fut.source, a)))
        /\ UNCHANGED counts

\* load runs to its return in one step; C's load takes `dl` of the clock
Load ==
    \E source \in Sources, dl \in Steps \cup {Duration(0, 0)} :
        LET moves == dl # Duration(0, 0)
            t1 == InstantAdd(now, dl)
            h == load(conn, source, now, t1)
            d == InnerLoad(direct, source)
        IN  /\ CanCall
            /\ moves => ticks < MaxTicks
            /\ ops' = ops + 1
            /\ now' = t1
            /\ ticks' = IF moves THEN ticks + 1 ELSE ticks
            /\ Logged(h.logs, "load", ops + 1)
            /\ conn' = h.conn
            /\ direct' = d.conn
            /\ direct_ret' = d.result
            /\ IF Panics(h.logs)
               THEN ret' = Panic /\ fut' = NoFut
               ELSE /\ ret' = h.ret
                    /\ fut' = [NoFut EXCEPT !.op = "load", !.id = ops + 1,
                                            !.state = "created", !.source = source,
                                            !.query_sql = h.query,
                                            !.start_time = h.begin,
                                            !.began_at = now, !.ended_at = t1]
            /\ Count("load")
            /\ UNCHANGED <<overflow_checks, max_level, ests, probe_in, probe_out>>

\* the caller awaits the LoadFuture it was handed, which is C's own
LoadResolve ==
    \E r \in LoadResults :
        /\ ~panicked /\ fut.op = "load" /\ Live
        /\ fut' = [fut EXCEPT !.state = "done"]
        /\ ret' = r
        /\ direct_ret' = r
        /\ UNCHANGED <<overflow_checks, max_level, ests, now, ticks, ops, conn,
                       direct, macros, log, counts, panicked, probe_in,
                       probe_out>>

ExecuteReturningCount ==
    \E source \in Sources :
        /\ CanCall
        /\ ops' = ops + 1
        /\ fut' = execute_returning_count(source, ops + 1)
        /\ ret' = NoRet
        /\ direct_ret' = NoRet
        /\ UNCHANGED <<overflow_checks, max_level, ests, now, ticks, conn, direct,
                       macros, log, counts, panicked, probe_in, probe_out>>

\* the caller polls the ExecuteFuture; when C's future is ready in this
\* poll, `dl` of the clock has passed between the poll's beginning and
\* start_time.elapsed()
Poll ==
    \E ip \in {Pending} \cup ExecResults, dl \in Steps \cup {Duration(0, 0)} :
        LET moves == dl # Duration(0, 0)
            ready == ip # Pending
            t1 == InstantAdd(now, dl)
            h == poll(fut, now, t1, ip)
        IN  /\ ~panicked /\ fut.op = "execute" /\ Live
            /\ moves => (ready /\ ticks < MaxTicks)
            /\ now' = t1
            /\ ticks' = IF moves THEN ticks + 1 ELSE ticks
            /\ fut' = [h.fut EXCEPT
                         !.began_at = IF fut.state = "created" THEN now ELSE @,
                         !.ended_at = IF ready THEN t1 ELSE @]
            /\ Logged(h.logs, "execute", fut.id)
            /\ direct_ret' = ip
            /\ ret' = h.out
            /\ IF h.fut.state = "done" THEN Count("exec_done")
               ELSE UNCHANGED counts
            /\ UNCHANGED <<overflow_checks, max_level, ests, ops, conn, direct,
                           probe_in, probe_out>>

\* the caller drops the future before it has completed
Drop ==
    /\ ~panicked /\ Live
    /\ fut' = [fut EXCEPT !.state = "dropped"]
    /\ UNCHANGED <<overflow_checks, max_level, ests, now, ticks, ops, conn, direct,
                   macros, log, ret, direct_ret, counts, panicked, probe_in,
                   probe_out>>

\* a poll of the future of begin / commit / rollback_transaction
Transaction(op, h, d, a) ==
    /\ Polled(op, h, Answer(direct, a, d))
    /\ UNCHANGED counts

BeginTransaction == Call("begin_transaction", "")

BeginTransactionPoll ==
    \E a \in {"pending"} \cup TxnOutcomes :
        Transaction("begin_transaction", begin_transaction(conn, a),
                    InnerTxn(direct, "begin", a), a)

CommitTransaction == Call("commit_transaction", "")

CommitTransactionPoll ==
    \E a \in {"pending"} \cup TxnOutcomes :
        Transaction("commit_transaction", commit_transaction(conn, a),
                    InnerTxn(direct, "commit", a), a)

RollbackTransaction == Call("rollback_transaction", "")

RollbackTransactionPoll ==
    \E a \in {"pending"} \cup TxnOutcomes :
        Transaction("rollback_transaction", rollback_transaction(conn, a),
                    InnerTxn(direct, "rollback", a), a)

\* the caller writes v through the reference transaction_manager_status_mut
\* returned, and reads it back
StatusMut ==
    \E v \in Statuses :
        LET place == transaction_manager_status_mut(conn)
        IN  /\ CanCall
            /\ ops' = ops + 1
            /\ conn' = Assign(conn, place, v)
            /\ ret' = Ok([status |-> Deref(conn', place)])
            /\ direct' = [direct EXCEPT !.status = v]
            /\ direct_ret' = Ok([status |-> v])
            /\ UNCHANGED <<overflow_checks, max_level, ests, now, ticks, fut, macros, counts,
                           log, panicked, probe_in, probe_out>>

Next ==
    \/ Tick
    \/ Establish
    \/ EstablishPoll
    \/ EstablishDrop
    \/ BatchExecute
    \/ BatchExecutePoll
    \/ Load
    \/ LoadResolve
    \/ ExecuteReturningCount
    \/ Poll
    \/ Drop
    \/ BeginTransaction
    \/ BeginTransactionPoll
    \/ CommitTransaction
    \/ CommitTransactionPoll
    \/ RollbackTransaction
    \/ RollbackTransactionPoll
    \/ StatusMut

Spec == Init /\ [][Next]_vars

\* ------------------------------------------- log_query on its own
ProbeSecs == {0, 1, 4, 5, 66, 16777, 100000, 4294967, 4294968, 2147483647}
ProbeNanos ==
    {0, 1, 217000000, 250000000, 250049999, 496000000, 500000000, 999999999}

InitDur ==
    /\ overflow_checks \in BOOLEAN
    /\ max_level \in MaxLevels
    /\ now = Duration(0, 0)
    /\ ticks = 0
    /\ ops = 0
    /\ conn = LoggingConnection_new(NewInner)
    /\ direct = NewInner
    /\ fut = NoFut
    /\ ests = <<>>
    /\ macros = <<>>
    /\ log = <<>>
    /\ ret = NoRet
    /\ direct_ret = NoRet
    /\ counts = [load |-> 0, exec_done |-> 0]
    /\ panicked = FALSE
    /\ probe_in \in {Duration(s, n) : s \in ProbeSecs, n \in ProbeNanos}
    /\ probe_out = <<>>

ApplyLogQuery ==
    /\ probe_out = <<>>
    /\ probe_out' = <<log_query(Render("q1"), probe_in)>>
    /\ UNCHANGED <<overflow_checks, max_level, ests, now, ticks, ops, conn, direct,
                   fut, macros, log, ret, direct_ret, counts, panicked,
                   probe_in>>

NextDur == ApplyLogQuery

SpecDur == InitDur /\ [][NextDur]_vars

\* =============================================================== claims
\* A log record is one use of warn! / info! / debug! by the wrapper (macros);
\* the log crate hands it to the installed logger (log) when its level is
\* enabled.
MacrosOf(id) == {i \in DOMAIN macros : macros[i].call = id}
MacrosOfOp(op) == {i \in DOMAIN macros : macros[i].op = op}
LogOf(id) == {i \in DOMAIN log : log[i].call = id}
IsPrefix(a, b) == Len(a) <= Len(b) /\ SubSeq(b, 1, Len(a)) = a
\* the logger holds the records whose level is enabled, in the order of use
ReachedLogger == log = SelectSeq(macros, LAMBDA u : u.rec.enabled)
\* the record for the timed span of the current future
SpanRecord == log_query(fut.query_sql, elapsed(fut.began_at, fut.ended_at))

\* C1: every execute_returning_count call whose future was driven to
\* completion, with an Ok or an Err from the inner connection, has exactly one
\* log record, and the execute records are as many as the completed calls;
\* the record is in the logger exactly when its level is enabled.
C1_OneRecordPerCompletedExecute ==
    /\ Cardinality(MacrosOfOp("execute")) = counts.exec_done
    /\ (fut.op = "execute" /\ fut.state = "done") =>
        /\ Cardinality(MacrosOf(fut.id)) = 1
        /\ \A i \in MacrosOf(fut.id) :
              Cardinality(LogOf(fut.id)) = IF macros[i].rec.enabled THEN 1 ELSE 0

\* two execute calls completed, the last one with an inner error, both
\* records in the logger
C1_Witness ==
    /\ counts.exec_done = 2
    /\ fut.op = "execute" /\ fut.state = "done"
    /\ ret = Err("DatabaseError")
    /\ Cardinality(MacrosOf(fut.id)) = 1
    /\ Len(log) = 2

\* C2: log_query uses warn for d >= 5s, info for 1s <= d < 5s and debug for
\* d < 1s, one level for every d; exactly 1.000s is info and exactly 5.000s
\* is warn.  (The level is that of the macro log_query invokes for d.)
C2_LevelByThreshold ==
    probe_out # <<>> =>
        LET c == probe_out[1]
            d == probe_in
        IN  /\ c.level \in Levels
            /\ DurGe(d, Duration(5, 0)) => c.level = "warn"
            /\ (DurGe(d, Duration(1, 0)) /\ ~DurGe(d, Duration(5, 0))) => c.level = "info"
            /\ ~DurGe(d, Duration(1, 0)) => c.level = "debug"

\* exactly 1.000s went through log_query and reached the logger at info as
\* "SLOW QUERY [1.00 s]"
C2_Witness ==
    /\ probe_in = Duration(1, 0)
    /\ probe_out # <<>>
    /\ probe_out[1].emitted
    /\ probe_out[1].level = "info"
    /\ probe_out[1].text = Decimal(Limbs(1), 0)

\* C3: after any sequence of begin / commit / rollback calls (failing,
\* suspended and abandoned ones included) and of writes through the status
\* reference, the status read through the wrapper's
\* transaction_manager_status_mut is the status of the inner connection
\* driven directly through the same sequence, and the wrapper's own
\* transaction manager holds no status.
C3_StatusIsInnerStatus ==
    /\ Deref(conn, transaction_manager_status_mut(conn)) = direct.status
    /\ conn.transaction_manager = [phantom |-> "PhantomData"]

\* two transaction calls through the wrapper (begin then commit, say), the
\* last one successful after a suspension, leaving no transaction open
C3_Witness ==
    /\ ops = 2
    /\ fut.op = "commit_transaction" /\ fut.state = "done"
    /\ ret = Ok(Unit)
    /\ Deref(conn, transaction_manager_status_mut(conn)) = 0
    /\ direct.status = 0

\* C4: what the wrapper returns for establish, batch_execute, load and
\* execute_returning_count is what the inner connection returned for the
\* delegated call, value or error (the connection establish yields is the
\* inner connection's, held in a new wrapper); it is what the same
\* connection returns when it is used without the wrapper.
C4_ResultIsInnerResult ==
    /\ ret = direct_ret
    /\ \A i \in DOMAIN ests :
          IF ests[i].ret.tag = "Ok"
          THEN /\ ests[i].direct_ret.tag = "Ok"
               /\ ests[i].ret.val = LoggingConnection_new(ests[i].direct_ret.val)
          ELSE ests[i].ret = ests[i].direct_ret

\* a batch_execute that failed in the inner connection, after an establish
\* that yielded a connection
C4_Witness ==
    /\ fut.op = "batch_execute" /\ fut.state = "done"
    /\ ret = Err("DatabaseError")
    /\ direct_ret = Err("DatabaseError")
    /\ \E i \in DOMAIN ests :
          ests[i].state = "done" /\ ests[i].ret = Ok(LoggingConnection_new(NewInner))

\* C5: no step of batch_execute or establish (the call, a poll that
\* suspends, a poll that completes with success or failure, the drop of an
\* establish future) uses a log macro or changes the log.
C5_BatchAndEstablishNeverLog ==
    [][(BatchExecute \/ BatchExecutePoll \/ Establish \/ EstablishPoll
          \/ EstablishDrop)
          => (macros' = macros /\ log' = log)]_vars

\* establish was called and refused while an execute_returning_count was
\* suspended, after which the execute completed and left the only record
C5_Witness ==
    /\ ops = 2
    /\ fut.op = "execute" /\ fut.state = "done" /\ fut.id = 1
    /\ \E i \in DOMAIN ests :
          ests[i].state = "done" /\ ests[i].ret = Err("BadConnection")
    /\ Len(log) = 1
    /\ log[1].op = "execute"

\* C6 as stated: a load or execute_returning_count whose future is dropped
\* before it completes has no log record.
C6_DroppedFutureHasNoRecord ==
    (fut.op \in {"load", "execute"} /\ fut.state = "dropped") =>
        MacrosOf(fut.id) = {}

\* C6 amended: an execute_returning_count future dropped before completion
\* has no log record; load has logged before it returned its future, so a
\* dropped load future has left exactly one record.
C6_DroppedExecuteHasNoRecord ==
    /\ (fut.op = "execute" /\ fut.state = "dropped") => MacrosOf(fut.id) = {}
    /\ (fut.op = "load" /\ fut.state = "dropped") =>
          Cardinality(MacrosOf(fut.id)) = 1

\* an execute future dropped while suspended in the inner await, after the
\* timer had started and time had passed, with every level enabled
C6_Witness ==
    /\ fut.op = "execute" /\ fut.state = "dropped"
    /\ fut.trace = <<"rendered", "timer_started", "inner_awaited">>
    /\ now # fut.began_at
    /\ max_level = "Trace"
    /\ MacrosOf(fut.id) = {}

\* C7: every load call has exactly one log record; the record exists when
\* load returns the inner future (before it is awaited), reports the time
\* from the start of load to the return of the inner load call, and stays the
\* same however long the future then takes and however it ends; it is in the
\* logger exactly when its level is enabled.
C7_LoadLogsOnceBeforeReturning ==
    /\ Cardinality(MacrosOfOp("load")) = counts.load
    /\ fut.op = "load" =>
        /\ Cardinality(MacrosOf(fut.id)) = 1
        /\ \A i \in MacrosOf(fut.id) :
              /\ macros[i].rec = SpanRecord
              /\ Cardinality(LogOf(fut.id)) = IF macros[i].rec.enabled THEN 1 ELSE 0

\* a load that returned at once, whose future then took 5s and failed: its
\* record is the debug record of the call, "QUERY: [0.0ms]"
C7_Witness ==
    /\ fut.op = "load" /\ fut.state = "done"
    /\ ret = Err("DatabaseError")
    /\ fut.began_at = fut.ended_at
    /\ now = InstantAdd(fut.ended_at, Duration(5, 0))
    /\ Cardinality(LogOf(fut.id)) = 1
    /\ \A i \in LogOf(fut.id) :
          log[i].rec.level = "debug" /\ log[i].rec.text = Decimal(Limbs(0), 0)

CanonTrace ==
    <<"rendered", "timer_started", "inner_awaited", "inner_completed",
      "elapsed_computed", "logged", "yielded">>

\* C8: an execute_returning_count call renders the query, starts the timer,
\* awaits the inner execution, computes the elapsed time, logs and yields, in
\* this order; no record exists before the inner execution has completed,
\* and the record reports the whole time from the start of the timer to the
\* reading of the clock after the completion, suspensions included.
C8_ExecuteOrderAndElapsed ==
    fut.op = "execute" =>
        /\ IsPrefix(fut.trace, CanonTrace)
        /\ MacrosOf(fut.id) # {} => fut.state = "done"
        /\ fut.state = "done" =>
            /\ fut.start_time = fut.began_at
            /\ \A i \in MacrosOf(fut.id) : macros[i].rec = SpanRecord

\* an execute that was suspended for 1s and then completed in a poll that
\* took 4s: logged at warn as "SLOW QUERY [5.00 s]"
C8_Witness ==
    /\ fut.op = "execute" /\ fut.state = "done"
    /\ fut.trace = CanonTrace
    /\ elapsed(fut.began_at, fut.ended_at) = Duration(5, 0)
    /\ now = fut.ended_at
    /\ \E i \in LogOf(fut.id) :
          log[i].rec.level = "warn" /\ log[i].rec.text = Decimal(Limbs(5), 0)

\* s * 1000 + n / 1e6 in f32 with the product taken exactly (no u32
\* truncation, no wrap, no panic)
ExactMs(d) ==
    AddF32(ToF32(MulExact(Limbs(as_secs(d)), 1000)),
           DivF32(ToF32(Limbs(subsec_nanos(d))), ToF32(Limbs(NANOS_PER_MILLI))))

\* C9: for every duration d the millisecond value of an enabled record is
\* the f32 value of s * 1000 + n / 1e6 and the seconds value of a SLOW QUERY
\* record is that value / 1000; the 32-bit product never changes the value.
C9_ReportedValueIsExact ==
    probe_out # <<>> =>
        LET c == probe_out[1]
        IN  c.enabled =>
              /\ c.emitted
              /\ c.template = QueryTemplate => c.value = ExactMs(probe_in)
              /\ c.template = SlowTemplate =>
                    c.value = DivF32(ExactMs(probe_in), ToF32(Limbs(MILLIS_PER_SEC)))

\* C10: the transaction operations of LoggingTransactionManager use no log
\* macro; the records are as many as the load calls plus the completed
\* execute_returning_count calls, whatever the number of transaction calls,
\* and the logger holds those whose level is enabled.
C10_TransactionsNeverLog ==
    /\ Len(macros) = counts.load + counts.exec_done
    /\ \A i \in DOMAIN macros : macros[i].op \in {"load", "execute"}
    /\ ReachedLogger

\* a logged load followed by a begin_transaction that completed
C10_Witness ==
    /\ counts.load = 1
    /\ ops = 2
    /\ fut.op = "begin_transaction" /\ fut.state = "done"
    /\ Len(log) = 1
    /\ conn.connection.status = 1

====
